---- MODULE Spec2Model ----
(***************************************************************************)
(* Model of pysparkplug's session layer and payload codec.                 *)
(*                                                                         *)
(*   DataOpsNode      src/src/pysparkplug/_data_ops_node.py                *)
(*   HostApplication  src/src/pysparkplug/_host_application.py             *)
(*   payload classes  src/src/pysparkplug/_payload.py                      *)
(*   text codec       src/src/pysparkplug/_json_payload.py                 *)
(*   Message          src/src/pysparkplug/_message.py                      *)
(*                                                                         *)
(* Every handler is one action.  A handler that raises stops where the     *)
(* Python code stops: the assignments made before the raise are kept, the  *)
(* statements after it are not executed, and the exception is recorded in  *)
(* `raised`.  `trace` holds, in program order, what the last handler did   *)
(* to the transport (the Client calls) and to the connected flag.          *)
(***************************************************************************)
EXTENDS Integers, Sequences, FiniteSets, TLC

----------------------------------------------------------------------------
(* Bounds and input domains *)

\* longest metric list passed to one publish call
MaxMetrics == 1

\* largest value of the host's clock
MaxClock == 2

\* Python's None
None == "None"

\* (group_id, edge_node_id) identities used as publish / rebirth targets
Ids == {"g1/n1", "g2/n2"}

\* Metric(name, datatype, value); name None and datatype UNKNOWN are legal
\* for a Metric (data metrics may omit them) but not inside a Birth
Metric(n, d, v) == [name |-> n, datatype |-> d, value |-> v]
a1 == Metric("a", "INT32", 1)
b1 == Metric("b", "INT32", 1)
bUnknown == Metric("b", "UNKNOWN", 2)
noName == Metric(None, "INT32", 1)
Metrics == {a1, b1, bUnknown, noName}

\* fixed enumeration order of metric names, used to list a snapshot's values
NameOrder == <<None, "a", "b">>

RECURSIVE SeqsUpTo(_, _)
SeqsUpTo(S, n) ==
    IF n = 0 THEN {<<>>}
    ELSE LET shorter == SeqsUpTo(S, n - 1)
         IN  shorter \cup {Append(s, x) : s \in {t \in shorter : Len(t) = n - 1}, x \in S}

MetricLists == SeqsUpTo(Metrics, MaxMetrics)

----------------------------------------------------------------------------
VARIABLES
    connected,   \* DataOpsNode._connected
    keys,        \* keys of DataOpsNode._published_metrics, in insertion order
    published,   \* DataOpsNode._published_metrics: identity -> (name -> Metric)
    opened,      \* transport: connect() was requested and the link not closed since
    born,        \* history: identities whose NBIRTH reached the transport
    last,        \* history: the last operation and its arguments
    trace,       \* history: Client calls and flag writes of the last handler
    raised,      \* exception that escaped the last handler, or None
    hconnected,  \* HostApplication._connected
    hopened,     \* transport of the host: connect() requested, not closed since
    hhook,       \* on_connect hook captured by the registered callback
    hcallback,   \* message callback captured by the host's subscription
    hwill,       \* last will registered with the host's transport
    hnow,        \* get_current_timestamp() of the host
    hlast,       \* history: the host's last operation
    htrace,      \* history: Client calls and flag writes of the host's last handler
    callback,    \* delivery thread: where it is in the node's on_connect_callback
    caller,      \* calling thread: where it is in a DataOpsNode method
    hdelivery,   \* delivery thread: where it is in the host's on_connect_callback
    hcalling,    \* calling thread: where it is in HostApplication.disconnect
    hstate,      \* history: the last STATE message the host session published
    applied,     \* codec: the call last made and its arguments
    outcome      \* codec: what that call returned or raised

nodeVars == <<connected, keys, published, opened, born, last, trace, raised>>

hostVars == <<hconnected, hopened, hhook, hcallback, hwill, hnow, hlast, htrace>>

hostThreadVars == <<hdelivery, hcalling, hstate>>

threadVars == <<callback, caller, hostThreadVars>>

codecVars == <<applied, outcome>>

vars == <<nodeVars, hostVars, threadVars, codecVars>>

----------------------------------------------------------------------------
(* Payload family: the parts the sessions depend on *)

\* Birth.__post_init__: the first metric with name None or datatype UNKNOWN
\* makes construction raise ValueError
BirthPostInit(metrics) ==
    IF \E i \in DOMAIN metrics :
           metrics[i].name = None \/ metrics[i].datatype = "UNKNOWN"
    THEN "ValueError"
    ELSE None

\* NDeath.encode: self.bd_seq_metric.to_pb(...) raises AttributeError when
\* bd_seq_metric is None; the timestamp is written only when present
NDeathEncode(payload) ==
    IF payload.bd_seq_metric = None THEN "AttributeError" ELSE None

\* _BasePayload.encode (births, data): writes the timestamp, seq and metrics
BasePayloadEncode(payload) == None

\* State.encode: json.dumps of the timestamp and the online flag
StateEncode(payload) == None

\* message.payload.encode(...), by payload class
PayloadEncode(msg) ==
    IF msg.mtype = "NDEATH" THEN NDeathEncode(msg.payload)
    ELSE IF msg.mtype = "STATE" THEN StateEncode(msg.payload)
    ELSE BasePayloadEncode(msg.payload)

----------------------------------------------------------------------------
(* Transport (Client): the calls a session makes, as trace steps *)

NoMsg == [mtype |-> None, id |-> None, qos |-> 0, retain |-> FALSE, payload |-> [timestamp |-> None]]

Step(call, msg, err) == [call |-> call, msg |-> msg, err |-> err]

\* Client.publish(message): encodes the payload, then passes the bytes to MQTT.
\* The step records the message handed over and the error, if encoding raised.
ClientPublish(msg) == Step("publish", msg, PayloadEncode(msg))

ClientConnect == Step("connect", NoMsg, None)
ClientDisconnect == Step("disconnect", NoMsg, None)

\* assignment to self._connected
SetConnected(b) == Step(IF b THEN "connected:=True" ELSE "connected:=False", NoMsg, None)

\* result of running a block of handler code: its steps and the exception
\* that ended it (None when it ran to the end)
Ran(steps, err) == [steps |-> steps, err |-> err]

\* statement sequencing: `second` runs only if `first` did not raise
Then(first, second) ==
    IF first.err # None THEN first
    ELSE Ran(first.steps \o second.steps, second.err)

\* one Client call as a block
Call(step) == Ran(<<step>>, step.err)

----------------------------------------------------------------------------
(* DataOpsNode helpers *)

\* {metric.name: metric for metric in metrics}: the last metric of a name wins
SnapshotOf(metrics) ==
    [n \in {metrics[i].name : i \in DOMAIN metrics} |->
        LET idx == {i \in DOMAIN metrics : metrics[i].name = n}
        IN  metrics[CHOOSE i \in idx : \A j \in idx : j <= i]]

\* faulty variant of MergeMetrics: the snapshot is replaced by the metrics of the
\* call instead of being updated name by name
MergeMetricsReplace(snapshot, metrics) == SnapshotOf(metrics)

\* for metric in metrics: self._published_metrics[key][metric.name] = metric
RECURSIVE MergeMetrics(_, _)
MergeMetrics(snapshot, metrics) ==
    IF metrics = <<>> THEN snapshot
    ELSE LET m == Head(metrics)
             updated == [n \in DOMAIN snapshot \cup {m.name} |->
                            IF n = m.name THEN m ELSE snapshot[n]]
         IN  MergeMetrics(updated, Tail(metrics))

\* metrics.values(), listed in NameOrder (Python lists them in insertion
\* order; no property of the model reads the order of a birth's metrics)
RECURSIVE ValuesFrom(_, _)
ValuesFrom(snapshot, i) ==
    IF i > Len(NameOrder) THEN <<>>
    ELSE (IF NameOrder[i] \in DOMAIN snapshot
          THEN <<snapshot[NameOrder[i]]>> ELSE <<>>)
         \o ValuesFrom(snapshot, i + 1)

Values(snapshot) == ValuesFrom(snapshot, 1)

\* DataOpsNode._retain_birth_certificates, the constructor's default
RetainBirthCertificates == FALSE

\* NBirth(timestamp=now, seq=0, metrics=list(metrics)) wrapped in a Message
NBirthMessage(id, metrics) ==
    [mtype |-> "NBIRTH", id |-> id, qos |-> 0, retain |-> RetainBirthCertificates,
     payload |-> [timestamp |-> "now", seq |-> 0, metrics |-> metrics]]

\* faulty variant of NDataMessage: the data message after a birth is numbered 1
NDataMessageNumbered(id, metrics) ==
    [mtype |-> "NDATA", id |-> id, qos |-> 0, retain |-> FALSE,
     payload |-> [timestamp |-> "now", seq |-> 1, metrics |-> metrics]]

\* NData(timestamp=now, seq=0, metrics=metrics) wrapped in a Message
NDataMessage(id, metrics) ==
    [mtype |-> "NDATA", id |-> id, qos |-> 0, retain |-> FALSE,
     payload |-> [timestamp |-> "now", seq |-> 0, metrics |-> metrics]]

\* bd_seq_metric argument of the NDeath built by _publish_ndeath
BdSeqMetric == None

\* NDeath(timestamp=now, bd_seq_metric=None) wrapped in a Message
NDeathMessage(id) ==
    [mtype |-> "NDEATH", id |-> id, qos |-> 0, retain |-> FALSE,
     payload |-> [timestamp |-> "now", bd_seq_metric |-> BdSeqMetric]]

\* DataOpsNode._publish_nbirth: constructing the NBirth may raise, and then
\* nothing reaches the Client
PublishNBirth(id, metrics) ==
    IF BirthPostInit(metrics) # None
    THEN Ran(<<>>, BirthPostInit(metrics))
    ELSE Call(ClientPublish(NBirthMessage(id, metrics)))

\* DataOpsNode._publish_ndeath
PublishNDeath(id) == Call(ClientPublish(NDeathMessage(id)))

\* for (group_id, edge_node_id), metrics in self._published_metrics.items():
\*     self._publish_nbirth(group_id, edge_node_id, metrics.values())
RECURSIVE BirthLoop(_, _)
BirthLoop(ks, pm) ==
    IF ks = <<>> THEN Ran(<<>>, None)
    ELSE Then(PublishNBirth(Head(ks), Values(pm[Head(ks)])), BirthLoop(Tail(ks), pm))

\* for (group_id, edge_node_id), _ in self._published_metrics.items():
\*     self._publish_ndeath(group_id, edge_node_id)
RECURSIVE DeathLoop(_)
DeathLoop(ks) ==
    IF ks = <<>> THEN Ran(<<>>, None)
    ELSE Then(PublishNDeath(Head(ks)), DeathLoop(Tail(ks)))

\* identities whose NBIRTH was accepted by the Client in these steps
BirthsIn(steps) ==
    {steps[i].msg.id : i \in {j \in DOMAIN steps :
        steps[j].call = "publish" /\ steps[j].msg.mtype = "NBIRTH" /\ steps[j].err = None}}

----------------------------------------------------------------------------
(* DataOpsNode operations *)

Op(name, id, ms) == [op |-> name, id |-> id, ms |-> ms]

NodeInit ==
    /\ connected = FALSE
    /\ keys = <<>>
    /\ published = <<>>
    /\ opened = FALSE
    /\ born = {}
    /\ last = Op("init", None, <<>>)
    /\ trace = <<>>
    /\ raised = None

\* what a handler run leaves in the history variables; the host session
\* is another object
Record(op, run) ==
    /\ UNCHANGED <<hostVars, threadVars, codecVars>>
    /\ last' = op
    /\ trace' = run.steps
    /\ raised' = run.err
    /\ born' = born \cup BirthsIn(run.steps)

Did(run, call) == \E i \in DOMAIN run.steps : run.steps[i].call = call

\* DataOpsNode.connect: hands on_connect_callback to the Client and opens it
ConnectRun == Call(ClientConnect)

Connect ==
    /\ opened' = TRUE
    /\ Record(Op("connect", None, <<>>), ConnectRun)
    /\ UNCHANGED <<connected, keys, published>>

\* on_connect_callback: the flag, then a birth per known identity
OnConnectRun(ks, pm) == Then(Call(SetConnected(TRUE)), BirthLoop(ks, pm))

\* the transport reports a successful connection (also after a reconnect of
\* a link that is still open)
OnConnect ==
    /\ opened
    /\ connected' = TRUE
    /\ Record(Op("on_connect", None, <<>>), OnConnectRun(keys, published))
    /\ UNCHANGED <<keys, published, opened>>

\* faulty variant of DisconnectRun: the `if self._connected` guard is missing
DisconnectRunUnguarded(conn, ks) ==
    Then(DeathLoop(ks), Then(Call(ClientDisconnect), Call(SetConnected(FALSE))))

\* DataOpsNode.disconnect
DisconnectRun(conn, ks) ==
    Then(IF conn THEN DeathLoop(ks) ELSE Ran(<<>>, None),
         Then(Call(ClientDisconnect), Call(SetConnected(FALSE))))

Disconnect ==
    LET run == DisconnectRun(connected, keys)
    IN  /\ connected' = IF Did(run, "connected:=False") THEN FALSE ELSE connected
        /\ opened' = IF Did(run, "disconnect") THEN FALSE ELSE opened
        /\ Record(Op("disconnect", None, <<>>), run)
        /\ UNCHANGED <<keys, published>>

\* DataOpsNode.publish, the assignments to self._published_metrics
PublishStore(pm, id, ms) ==
    IF id \notin DOMAIN pm
    THEN [k \in DOMAIN pm \cup {id} |-> IF k = id THEN SnapshotOf(ms) ELSE pm[k]]
    ELSE [pm EXCEPT ![id] = MergeMetrics(pm[id], ms)]

\* faulty variant of PublishRun: a data message also for a new key
PublishRunDataFirst(pm, id, ms) == Call(ClientPublish(NDataMessage(id, ms)))

\* faulty variant of PublishRun: the data message carries the merged snapshot
PublishRunSendsSnapshot(pm, id, ms) ==
    IF id \notin DOMAIN pm
    THEN PublishNBirth(id, ms)
    ELSE Call(ClientPublish(NDataMessage(id, Values(PublishStore(pm, id, ms)[id]))))

\* DataOpsNode.publish, the message it sends: a birth for a new key, else
\* a data message with the metrics of this call
PublishRun(pm, id, ms) ==
    IF id \notin DOMAIN pm
    THEN PublishNBirth(id, ms)
    ELSE Call(ClientPublish(NDataMessage(id, ms)))

Publish(id, ms) ==
    /\ published' = PublishStore(published, id, ms)
    /\ keys' = IF id \in DOMAIN published THEN keys ELSE Append(keys, id)
    /\ Record(Op("publish", id, ms), PublishRun(published, id, ms))
    /\ UNCHANGED <<connected, opened>>

\* faulty variant of RebirthRun: a birth also for a key that is not in the map
RebirthRunUnchecked(pm, id) ==
    PublishNBirth(id, IF id \in DOMAIN pm THEN Values(pm[id]) ELSE <<>>)

\* DataOpsNode.rebirth: `if metrics:` is false for a missing key and for an
\* empty snapshot
RebirthRun(pm, id) ==
    IF id \in DOMAIN pm /\ DOMAIN pm[id] # {}
    THEN PublishNBirth(id, Values(pm[id]))
    ELSE Ran(<<>>, None)

Rebirth(id) ==
    /\ Record(Op("rebirth", id, <<>>), RebirthRun(published, id))
    /\ UNCHANGED <<connected, keys, published, opened>>

\* DataOpsNode.subscribe / unsubscribe: passed on to the Client
Subscribe ==
    /\ Record(Op("subscribe", None, <<>>), Call(Step("subscribe", NoMsg, None)))
    /\ UNCHANGED <<connected, keys, published, opened>>

Unsubscribe ==
    /\ Record(Op("unsubscribe", None, <<>>), Call(Step("unsubscribe", NoMsg, None)))
    /\ UNCHANGED <<connected, keys, published, opened>>

NodeNext ==
    \/ Connect
    \/ OnConnect
    \/ Disconnect
    \/ \E id \in Ids, ms \in MetricLists : Publish(id, ms)
    \/ \E id \in Ids : Rebirth(id)
    \/ Subscribe
    \/ Unsubscribe

----------------------------------------------------------------------------
(* HostApplication *)

HostId == "host1"

\* what the caller's on_connect hook does: None when no hook was given; a
\* hook that just returns; a hook that re-enters the session and disconnects
Hooks == {None, "returns", "disconnects"}

\* Message(STATE topic of this host, State(timestamp=now, online), qos, retain=True)
StateMessage(online, qos, now) ==
    [mtype |-> "STATE", id |-> HostId, qos |-> qos, retain |-> TRUE,
     payload |-> [timestamp |-> now, online |-> online]]

\* NCmd / DCmd(timestamp=now, metrics) wrapped in a Message
CmdMessage(mtype, qos, metrics, now) ==
    [mtype |-> mtype, id |-> "g1/n1", qos |-> qos, retain |-> FALSE,
     payload |-> [timestamp |-> now, metrics |-> metrics]]

\* HostApplication._setup_will: an offline STATE, qos 0, retained, stamped now
SetupWill(now) == Call(Step("set_will", StateMessage(FALSE, 0, now), None))

\* faulty variant of HostDisconnectRun: the transport is closed before the
\* offline STATE is published
HostDisconnectRunCloseFirst(conn, now) ==
    Then(Call(ClientDisconnect),
         Then(IF conn THEN Call(ClientPublish(StateMessage(FALSE, 0, now))) ELSE Ran(<<>>, None),
              Call(SetConnected(FALSE))))

\* HostApplication.disconnect
HostDisconnectRun(conn, now) ==
    Then(IF conn THEN Call(ClientPublish(StateMessage(FALSE, 0, now))) ELSE Ran(<<>>, None),
         Then(Call(ClientDisconnect), Call(SetConnected(FALSE))))

\* what a message callback does: None when subscribe was given none (the
\* session's own message callback is used, which returns); a callback that
\* returns; callbacks that re-enter the session through send_node_command,
\* subscribe or disconnect
Callbacks == {None, "returns", "sends", "subscribes", "disconnects"}

\* cb of HostApplication.subscribe:
\* (callback or self._message_callback)(self, message)
CallbackRun(cb, conn, now) ==
    LET entered == Call(Step("callback", NoMsg, None))
    IN  IF cb = "sends"
        THEN Then(entered, Call(ClientPublish(CmdMessage("NCMD", 1, <<>>, now))))
        ELSE IF cb = "subscribes"
        THEN Then(entered, Call(Step("subscribe", NoMsg, None)))
        ELSE IF cb = "disconnects"
        THEN Then(entered, HostDisconnectRun(conn, now))
        ELSE entered

\* faulty variant of HookRun: the hook is invoked with a session lock held,
\* which a hook that re-enters the session then waits for
HookRunUnderLock(hook, now) ==
    IF hook = None THEN Ran(<<>>, None)
    ELSE Then(Call(Step("acquire", NoMsg, None)),
              Then(Call(Step("hook", NoMsg, None)),
                   IF hook = "returns" THEN Call(Step("release", NoMsg, None))
                   ELSE Ran(<<>>, "Deadlock")))

\* on_connect(self), when a hook was given
HookRun(hook, now) ==
    IF hook = None THEN Ran(<<>>, None)
    ELSE IF hook = "returns" THEN Call(Step("hook", NoMsg, None))
    ELSE Then(Call(Step("hook", NoMsg, None)), HostDisconnectRun(TRUE, now))

\* faulty variant of HostConnectRun: the Client is opened before the will is set
HostConnectRunOpenFirst(now) == Then(Call(ClientConnect), SetupWill(now))

\* HostApplication.connect: the will, then the Client is opened
HostConnectRun(now) == Then(SetupWill(now), Call(ClientConnect))

\* faulty variant of HostOnConnectRun: the flag is not set
HostOnConnectRunNoFlag(hook, now) ==
    Then(Call(ClientPublish(StateMessage(TRUE, 1, now))),
         Then(HookRun(hook, now), SetupWill(now)))

\* on_connect_callback of the host: flag, online STATE, hook, fresh will
HostOnConnectRun(hook, now) ==
    Then(Call(SetConnected(TRUE)),
         Then(Call(ClientPublish(StateMessage(TRUE, 1, now))),
              Then(HookRun(hook, now), SetupWill(now))))

\* value of a variable after the steps: the last write among them, if any
RECURSIVE LastWrite(_, _, _, _)
LastWrite(steps, setCall, clearCall, before) ==
    IF steps = <<>> THEN before
    ELSE LET s == steps[Len(steps)]
         IN  IF s.call = setCall THEN TRUE
             ELSE IF s.call = clearCall THEN FALSE
             ELSE LastWrite(SubSeq(steps, 1, Len(steps) - 1), setCall, clearCall, before)

\* the will registered by the steps, else the one registered before
RECURSIVE LastWill(_, _)
LastWill(steps, before) ==
    IF steps = <<>> THEN before
    ELSE LET s == steps[Len(steps)]
         IN  IF s.call = "set_will" THEN s.msg
             ELSE LastWill(SubSeq(steps, 1, Len(steps) - 1), before)

HostInit ==
    /\ hconnected = FALSE
    /\ hopened = FALSE
    /\ hhook = None
    /\ hcallback = None
    /\ hwill = NoMsg
    /\ hnow = 0
    /\ hlast = "init"
    /\ htrace = <<Step("subscribe", NoMsg, None)>>

\* effect of a host handler run on the session and on its transport
HostRecord(op, run) ==
    /\ UNCHANGED <<nodeVars, threadVars, codecVars>>
    /\ hlast' = op
    /\ htrace' = run.steps
    /\ hconnected' = LastWrite(run.steps, "connected:=True", "connected:=False", hconnected)
    /\ hopened' = LastWrite(run.steps, "connect", "disconnect", hopened)
    /\ hwill' = LastWill(run.steps, hwill)

HostConnect(hook) ==
    /\ hhook' = hook
    /\ HostRecord("connect", HostConnectRun(hnow))
    /\ UNCHANGED <<hcallback, hnow>>

HostOnConnect ==
    /\ hopened
    /\ HostRecord("on_connect", HostOnConnectRun(hhook, hnow))
    /\ UNCHANGED <<hhook, hcallback, hnow>>

HostDisconnect ==
    /\ HostRecord("disconnect", HostDisconnectRun(hconnected, hnow))
    /\ UNCHANGED <<hhook, hcallback, hnow>>

\* HostApplication.send_node_command (qos 1) / send_device_command (qos 0)
SendNodeCommand(ms) ==
    /\ HostRecord("send_node_command", Call(ClientPublish(CmdMessage("NCMD", 1, ms, hnow))))
    /\ UNCHANGED <<hhook, hcallback, hnow>>

SendDeviceCommand(ms) ==
    /\ HostRecord("send_device_command", Call(ClientPublish(CmdMessage("DCMD", 0, ms, hnow))))
    /\ UNCHANGED <<hhook, hcallback, hnow>>

\* HostApplication.subscribe: cb, which captures the callback, goes to the Client
HostSubscribe(cb) ==
    /\ hcallback' = cb
    /\ HostRecord("subscribe", Call(Step("subscribe", NoMsg, None)))
    /\ UNCHANGED <<hhook, hnow>>

\* the transport delivers a message of the subscription: cb runs
HostDeliver ==
    /\ hopened
    /\ HostRecord("deliver", CallbackRun(hcallback, hconnected, hnow))
    /\ UNCHANGED <<hhook, hcallback, hnow>>

\* the link to the broker is lost without disconnect() having been called:
\* connect() gave the Client no callback for this, so no code of the session
\* runs (the broker publishes the will)
HostLinkLost ==
    /\ hopened /\ hconnected
    /\ HostRecord("link_lost", Ran(<<>>, None))
    /\ UNCHANGED <<hhook, hcallback, hnow>>

\* time passes
Tick ==
    /\ hnow < MaxClock
    /\ hnow' = hnow + 1
    /\ UNCHANGED <<hconnected, hopened, hhook, hcallback, hwill, hlast, htrace>>
    /\ UNCHANGED <<nodeVars, threadVars, codecVars>>

HostNext ==
    \/ \E hook \in Hooks : HostConnect(hook)
    \/ HostOnConnect
    \/ HostDisconnect
    \/ \E ms \in MetricLists : SendNodeCommand(ms)
    \/ \E ms \in MetricLists : SendDeviceCommand(ms)
    \/ \E cb \in Callbacks : HostSubscribe(cb)
    \/ HostDeliver
    \/ HostLinkLost
    \/ Tick

----------------------------------------------------------------------------
(* DataOpsNode, statement by statement: the calling thread runs publish and *)
(* disconnect while the transport's delivery thread runs on_connect_callback. *)
(* The code takes no lock, so the two threads interleave between any two    *)
(* statements.  `born`, `last`, `trace` and `raised` describe whole handlers *)
(* and are not written here.                                                 *)

IdleCaller == [pc |-> "idle", id |-> None, ms |-> <<>>]

IdleCallback == [pc |-> "idle", size |-> 0, pos |-> 0, seen |-> <<>>, err |-> None]

ThreadInit ==
    /\ callback = IdleCallback
    /\ caller = IdleCaller

ThreadFrame == UNCHANGED <<hostVars, hostThreadVars, codecVars, born, last, trace, raised>>

\* self._client.connect(..., callback=on_connect_callback)
CallConnect ==
    /\ caller.pc = "idle" /\ ~opened
    /\ opened' = TRUE
    /\ UNCHANGED <<connected, keys, published, callback, caller>>
    /\ ThreadFrame

\* on_connect_callback is entered: self._connected = True
CallbackEnter ==
    /\ opened /\ callback.pc = "idle"
    /\ connected' = TRUE
    /\ callback' = [IdleCallback EXCEPT !.pc = "entered"]
    /\ UNCHANGED <<keys, published, opened, caller>>
    /\ ThreadFrame

\* `for ... in self._published_metrics.items()`: the iterator is created and
\* remembers the size of the dict
CallbackIter ==
    /\ callback.pc = "entered"
    /\ callback' = [callback EXCEPT !.pc = "iter", !.size = Len(keys), !.pos = 1]
    /\ UNCHANGED <<connected, keys, published, opened, caller>>
    /\ ThreadFrame

\* one turn of the loop: the iterator raises RuntimeError when the dict's size
\* is no longer the one it remembers, stops after the last entry, and else
\* yields the next entry, for which _publish_nbirth runs
CallbackStep(cb, ks, pm) ==
    IF Len(ks) # cb.size THEN [cb EXCEPT !.pc = "idle", !.err = "RuntimeError"]
    ELSE IF cb.pos > Len(ks) THEN [cb EXCEPT !.pc = "idle"]
    ELSE LET id == ks[cb.pos]
             run == PublishNBirth(id, Values(pm[id]))
         IN  IF run.err # None THEN [cb EXCEPT !.pc = "idle", !.err = run.err]
             ELSE [cb EXCEPT !.pos = cb.pos + 1, !.seen = Append(cb.seen, id)]

CallbackNext ==
    /\ callback.pc = "iter"
    /\ callback' = CallbackStep(callback, keys, published)
    /\ UNCHANGED <<connected, keys, published, opened, caller>>
    /\ ThreadFrame

\* publish, new key: self._published_metrics[key] = {...}
CallPublishNew(id, ms) ==
    /\ caller.pc = "idle" /\ id \notin DOMAIN published
    /\ published' = PublishStore(published, id, ms)
    /\ keys' = Append(keys, id)
    /\ caller' = [pc |-> "birth", id |-> id, ms |-> ms]
    /\ UNCHANGED <<connected, opened, callback>>
    /\ ThreadFrame

\* publish, new key: self._publish_nbirth(...), after which publish returns
\* or raises
CallPublishBirth ==
    /\ caller.pc = "birth"
    /\ caller' = IdleCaller
    /\ UNCHANGED <<connected, keys, published, opened, callback>>
    /\ ThreadFrame

\* publish, known key: the else branch is taken
CallPublishKnown(id, ms) ==
    /\ caller.pc = "idle" /\ id \in DOMAIN published
    /\ caller' = [pc |-> "merge", id |-> id, ms |-> ms]
    /\ UNCHANGED <<connected, keys, published, opened, callback>>
    /\ ThreadFrame

\* publish, known key: self._published_metrics[key][metric.name] = metric
CallMerge ==
    /\ caller.pc = "merge" /\ caller.ms # <<>>
    /\ published' = [published EXCEPT
                        ![caller.id] = MergeMetrics(@, <<Head(caller.ms)>>)]
    /\ caller' = [caller EXCEPT !.ms = Tail(caller.ms)]
    /\ UNCHANGED <<connected, keys, opened, callback>>
    /\ ThreadFrame

\* publish, known key: the NData is built and handed to the Client
CallPublishData ==
    /\ caller.pc = "merge" /\ caller.ms = <<>>
    /\ caller' = IdleCaller
    /\ UNCHANGED <<connected, keys, published, opened, callback>>
    /\ ThreadFrame

\* disconnect: `if self._connected:` and the death loop, which may raise
CallDisconnect ==
    /\ caller.pc = "idle"
    /\ caller' = IF connected /\ DeathLoop(keys).err # None
                  THEN IdleCaller
                  ELSE [IdleCaller EXCEPT !.pc = "close"]
    /\ UNCHANGED <<connected, keys, published, opened, callback>>
    /\ ThreadFrame

\* disconnect: self._client.disconnect()
CallClose ==
    /\ caller.pc = "close"
    /\ opened' = FALSE
    /\ caller' = [caller EXCEPT !.pc = "flag"]
    /\ UNCHANGED <<connected, keys, published, callback>>
    /\ ThreadFrame

\* disconnect: self._connected = False
CallClearFlag ==
    /\ caller.pc = "flag"
    /\ connected' = FALSE
    /\ caller' = IdleCaller
    /\ UNCHANGED <<keys, published, opened, callback>>
    /\ ThreadFrame

ThreadNext ==
    \/ CallConnect
    \/ CallbackEnter
    \/ CallbackIter
    \/ CallbackNext
    \/ \E id \in Ids, ms \in MetricLists : CallPublishNew(id, ms)
    \/ CallPublishBirth
    \/ \E id \in Ids, ms \in MetricLists : CallPublishKnown(id, ms)
    \/ CallMerge
    \/ CallPublishData
    \/ CallDisconnect
    \/ CallClose
    \/ CallClearFlag

----------------------------------------------------------------------------
(* HostApplication, statement by statement: the calling thread runs connect *)
(* and disconnect while the transport's delivery thread runs the            *)
(* on_connect_callback.  The code takes no lock, so the two threads         *)
(* interleave between any two statements.  `hlast` and `htrace` describe    *)
(* whole handlers and are not written here.                                 *)

HostThreadInit ==
    /\ hdelivery = "idle"
    /\ hcalling = "idle"
    /\ hstate = NoMsg

HostThreadFrame ==
    UNCHANGED <<nodeVars, codecVars, callback, caller, hcallback, hnow, hlast, htrace>>

\* hooks that return without calling the session
QuietHooks == Hooks \ {"disconnects"}

\* connect: self._setup_will(), then self._client.connect(..., callback=...)
HostCallConnect(hook) ==
    /\ hcalling = "idle" /\ ~hopened
    /\ hhook' = hook
    /\ hwill' = StateMessage(FALSE, 0, hnow)
    /\ hopened' = TRUE
    /\ UNCHANGED <<hconnected, hdelivery, hcalling, hstate>>
    /\ HostThreadFrame

\* on_connect_callback is entered: self._connected = True
HostCallbackEnter ==
    /\ hopened /\ hdelivery = "idle"
    /\ hconnected' = TRUE
    /\ hdelivery' = "publish"
    /\ UNCHANGED <<hopened, hhook, hwill, hcalling, hstate>>
    /\ HostThreadFrame

\* on_connect_callback: client.publish(online_message)
HostCallbackPublish ==
    /\ hdelivery = "publish"
    /\ hstate' = StateMessage(TRUE, 1, hnow)
    /\ hdelivery' = "hook"
    /\ UNCHANGED <<hconnected, hopened, hhook, hwill, hcalling>>
    /\ HostThreadFrame

\* on_connect_callback: `if on_connect is not None: on_connect(self)`
HostCallbackHook ==
    /\ hdelivery = "hook"
    /\ hdelivery' = "will"
    /\ UNCHANGED <<hconnected, hopened, hhook, hwill, hcalling, hstate>>
    /\ HostThreadFrame

\* on_connect_callback: self._setup_will()
HostCallbackWill ==
    /\ hdelivery = "will"
    /\ hwill' = StateMessage(FALSE, 0, hnow)
    /\ hdelivery' = "idle"
    /\ UNCHANGED <<hconnected, hopened, hhook, hcalling, hstate>>
    /\ HostThreadFrame

\* disconnect: `if self._connected:`
HostCallDisconnect ==
    /\ hcalling = "idle"
    /\ hcalling' = IF hconnected THEN "offline" ELSE "close"
    /\ UNCHANGED <<hconnected, hopened, hhook, hwill, hdelivery, hstate>>
    /\ HostThreadFrame

\* disconnect: self._client.publish(offline_message)
HostCallOffline ==
    /\ hcalling = "offline"
    /\ hstate' = StateMessage(FALSE, 0, hnow)
    /\ hcalling' = "close"
    /\ UNCHANGED <<hconnected, hopened, hhook, hwill, hdelivery>>
    /\ HostThreadFrame

\* disconnect: self._client.disconnect()
HostCallClose ==
    /\ hcalling = "close"
    /\ hopened' = FALSE
    /\ hcalling' = "flag"
    /\ UNCHANGED <<hconnected, hhook, hwill, hdelivery, hstate>>
    /\ HostThreadFrame

\* disconnect: self._connected = False
HostCallClearFlag ==
    /\ hcalling = "flag"
    /\ hconnected' = FALSE
    /\ hcalling' = "idle"
    /\ UNCHANGED <<hopened, hhook, hwill, hdelivery, hstate>>
    /\ HostThreadFrame

HostThreadNext ==
    \/ \E hook \in QuietHooks : HostCallConnect(hook)
    \/ HostCallbackEnter
    \/ HostCallbackPublish
    \/ HostCallbackHook
    \/ HostCallbackWill
    \/ HostCallDisconnect
    \/ HostCallOffline
    \/ HostCallClose
    \/ HostCallClearFlag
    \/ Tick

----------------------------------------------------------------------------
(* Payload codec: _payload.py, _json_payload.py, _message.py.               *)
(* A payload object is a record with the fields of its dataclass; a wire    *)
(* payload is a record of the fields of the protobuf Payload or of the JSON *)
(* object, where None stands for a field or key that is absent.  Numbers    *)
(* are written as numerals, so that None can stand next to them.  `format`  *)
(* says what the bytes are: a serialized protobuf message ("binary") or a   *)
(* JSON document ("text").                                                  *)

\* longest metric list of a payload given to the codec
MaxWire == 1

\* Metric(name=..., alias=..., datatype=..., value=...); a field that is not
\* given is None, and the datatype UNKNOWN
CodecMetric(n, a, d, v) == [name |-> n, alias |-> a, datatype |-> d, value |-> v]

\* metrics given to payload constructors
ObjectMetrics ==
    {CodecMetric(n, a, d, v) :
        n \in {None, "", "a"}, a \in {None, "1"}, d \in {"UNKNOWN", "INT32"}, v \in {None, "5"}}

\* metrics as they arrive on the wire
WireMetrics ==
    {CodecMetric(n, a, d, v) :
        n \in {None, "a", "z"}, a \in {None, "1", "99"}, d \in {None, "INT32"}, v \in {None, "5"}}

BirthVariants == {"NBIRTH", "DBIRTH"}
DataVariants == {"NDATA", "DDATA"}
CmdVariants == {"NCMD", "DCMD"}
BaseVariants == BirthVariants \cup DataVariants \cup CmdVariants
Variants == BaseVariants \cup {"NDEATH", "DDEATH", "STATE"}

\* the dataclass has a seq field
HasSeq(variant) == variant \in BirthVariants \cup DataVariants \cup {"DDEATH"}

\* no payload: birth=None as an argument, nothing returned by a call that raised
NoPayload == [variant |-> None]

\* outcome of a call: the value returned, or the exception raised
Returned(v) == [err |-> None, val |-> v]
Raised(e) == [err |-> e, val |-> NoPayload]

\* outcome of a dict lookup
Found(v) == [err |-> None, val |-> v]
Missing == [err |-> "KeyError", val |-> None]

\* Birth._names_mapping as __post_init__ fills it: alias -> name, a later
\* metric of the same alias overwrites an earlier one
NamesMapping(metrics) ==
    [a \in {metrics[i].alias : i \in {j \in DOMAIN metrics : metrics[j].alias # None}} |->
        LET idx == {i \in DOMAIN metrics : metrics[i].alias = a}
        IN  metrics[CHOOSE i \in idx : \A j \in idx : j <= i].name]

\* Birth._dtypes_mapping as __post_init__ fills it: name -> datatype
DtypesMapping(metrics) ==
    [n \in {metrics[i].name : i \in DOMAIN metrics} |->
        LET idx == {i \in DOMAIN metrics : metrics[i].name = n}
        IN  metrics[CHOOSE i \in idx : \A j \in idx : j <= i].datatype]

\* faulty variant of GetName: an alias the birth does not know yields no name
\* instead of raising
GetNameOrNone(birth, alias) ==
    IF alias \in DOMAIN NamesMapping(birth.metrics)
    THEN Found(NamesMapping(birth.metrics)[alias])
    ELSE Found(None)

\* Birth.get_name: self._names_mapping[alias]
GetName(birth, alias) ==
    IF alias \in DOMAIN NamesMapping(birth.metrics)
    THEN Found(NamesMapping(birth.metrics)[alias])
    ELSE Missing

\* Birth.get_dtype: self._dtypes_mapping[name]
GetDtype(birth, name) ==
    IF name \in DOMAIN DtypesMapping(birth.metrics)
    THEN Found(DtypesMapping(birth.metrics)[name])
    ELSE Missing

\* cls(**kwargs) for the subclasses of _BasePayload: the dataclass's __init__
\* raises TypeError when seq is given to a class without it or missing for a
\* class with it; a Birth then runs __post_init__
Construct(variant, timestamp, seq, metrics) ==
    IF (seq # None) # HasSeq(variant) THEN Raised("TypeError")
    ELSE IF variant \in BirthVariants /\ BirthPostInit(metrics) # None
    THEN Raised(BirthPostInit(metrics))
    ELSE IF HasSeq(variant)
    THEN Returned([variant |-> variant, timestamp |-> timestamp, seq |-> seq, metrics |-> metrics])
    ELSE Returned([variant |-> variant, timestamp |-> timestamp, metrics |-> metrics])

\* getters of a protobuf message: an absent field reads as its default
PbName(w) == IF w.name = None THEN "" ELSE w.name
PbAlias(w) == IF w.alias = None THEN "0" ELSE w.alias
PbDatatype(w) == IF w.datatype = None THEN "UNKNOWN" ELSE w.datatype
PbTimestamp(wire) == IF wire.timestamp = None THEN "0" ELSE wire.timestamp
PbSeq(wire) == IF wire.seq = None THEN "0" ELSE wire.seq

\* Metric.to_pb: every field that is populated, the datatype on request
MetricToPb(m, include_dtype) ==
    [name |-> m.name, alias |-> m.alias,
     datatype |-> IF include_dtype THEN m.datatype ELSE None,
     value |-> m.value]

\* Metric.from_pb: the fields present, the datatype through its getter
MetricFromPb(w) ==
    [name |-> w.name, alias |-> w.alias, datatype |-> PbDatatype(w), value |-> w.value]

\* _decode_protobuf, body of the loop over payload.metrics
ResolvePb(w, birth) ==
    LET name == IF PbName(w) = "" THEN GetName(birth, PbAlias(w)) ELSE Found(w.name)
    IN  IF name.err # None THEN Raised(name.err)
        ELSE LET dtype == IF PbDatatype(w) = "UNKNOWN"
                          THEN GetDtype(birth, name.val)
                          ELSE Found(w.datatype)
             IN  IF dtype.err # None THEN Raised(dtype.err)
                 ELSE Returned([w EXCEPT !.name = name.val, !.datatype = dtype.val])

\* _decode_protobuf, the loop: stops at the first lookup that raises
RECURSIVE ResolveAllPb(_, _)
ResolveAllPb(ws, birth) ==
    IF ws = <<>> THEN Returned(<<>>)
    ELSE LET first == ResolvePb(Head(ws), birth)
             rest == ResolveAllPb(Tail(ws), birth)
         IN  IF first.err # None THEN Raised(first.err)
             ELSE IF rest.err # None THEN Raised(rest.err)
             ELSE Returned(<<first.val>> \o rest.val)

\* bytes that are not what the parser expects: protobuf's FromString and
\* json.loads raise
ParseError == "DecodeError"

\* _BasePayload._decode_protobuf
DecodeProtobuf(variant, wire, birth) ==
    IF wire.format # "binary" THEN Raised(ParseError) ELSE
    LET resolved == IF birth # NoPayload
                    THEN ResolveAllPb(wire.metrics, birth)
                    ELSE Returned(wire.metrics)
    IN  IF resolved.err # None THEN Raised(resolved.err)
        ELSE Construct(variant, PbTimestamp(wire), wire.seq,
                       [i \in DOMAIN resolved.val |-> MetricFromPb(resolved.val[i])])

\* _BasePayload._encode_protobuf
EncodeProtobuf(p, include_dtypes) ==
    [format |-> "binary", timestamp |-> p.timestamp,
     seq |-> IF HasSeq(p.variant) THEN p.seq ELSE None,
     metrics |-> [i \in DOMAIN p.metrics |-> MetricToPb(p.metrics[i], include_dtypes)]]

\* datatypes whose value metric_to_json / metric_from_json pass through
JsonScalarTypes == {"INT32"}

\* metric_to_json: include_dtype is not read; the datatype is written when
\* it is not UNKNOWN, the value when the datatype is one of the listed ones
MetricToJson(m, include_dtype) ==
    [name |-> m.name, alias |-> m.alias,
     datatype |-> IF m.datatype # "UNKNOWN" THEN m.datatype ELSE None,
     value |-> IF m.value # None /\ m.datatype \in JsonScalarTypes THEN m.value ELSE None]

\* metric_from_json: the value is taken when the object itself carries one
\* of the listed datatypes
MetricFromJson(j) ==
    [name |-> j.name, alias |-> j.alias,
     datatype |-> IF j.datatype = None THEN "UNKNOWN" ELSE j.datatype,
     value |-> IF j.value # None /\ j.datatype \in JsonScalarTypes THEN j.value ELSE None]

\* payload_from_json, body of the loop over metrics
ResolveJson(m, birth) ==
    LET name == IF (m.name = None \/ m.name = "") /\ m.alias # None
                THEN GetName(birth, m.alias)
                ELSE Found(m.name)
    IN  IF name.err # None THEN Raised(name.err)
        ELSE LET dtype == IF m.datatype = "UNKNOWN"
                          THEN GetDtype(birth, name.val)
                          ELSE Found(m.datatype)
             IN  IF dtype.err # None THEN Raised(dtype.err)
                 ELSE Returned([m EXCEPT !.name = name.val, !.datatype = dtype.val])

\* payload_from_json, the loop
RECURSIVE ResolveAllJson(_, _)
ResolveAllJson(ms, birth) ==
    IF ms = <<>> THEN Returned(<<>>)
    ELSE LET first == ResolveJson(Head(ms), birth)
             rest == ResolveAllJson(Tail(ms), birth)
         IN  IF first.err # None THEN Raised(first.err)
             ELSE IF rest.err # None THEN Raised(rest.err)
             ELSE Returned(<<first.val>> \o rest.val)

\* payload_from_json: data["timestamp"] raises KeyError when the key is absent
PayloadFromJson(variant, wire, birth) ==
    IF wire.format # "text" THEN Raised(ParseError)
    ELSE IF wire.timestamp = None THEN Raised("KeyError")
    ELSE LET metrics == [i \in DOMAIN wire.metrics |-> MetricFromJson(wire.metrics[i])]
             resolved == IF birth # NoPayload
                         THEN ResolveAllJson(metrics, birth)
                         ELSE Returned(metrics)
         IN  IF resolved.err # None THEN Raised(resolved.err)
             ELSE Construct(variant, wire.timestamp, wire.seq, resolved.val)

\* payload_to_json
PayloadToJson(p, include_dtypes) ==
    [format |-> "text", timestamp |-> p.timestamp,
     seq |-> IF HasSeq(p.variant) THEN p.seq ELSE None,
     metrics |-> [i \in DOMAIN p.metrics |-> MetricToJson(p.metrics[i], include_dtypes)]]

\* _BasePayload.decode; use_json is the class attribute use_json_payload
BaseDecode(variant, use_json, wire, birth) ==
    IF use_json THEN PayloadFromJson(variant, wire, birth)
    ELSE DecodeProtobuf(variant, wire, birth)

\* _BasePayload.encode
BaseEncode(p, use_json, include_dtypes) ==
    IF use_json THEN PayloadToJson(p, include_dtypes)
    ELSE EncodeProtobuf(p, include_dtypes)

\* Birth.decode: birth = None, then super().decode
BirthDecode(variant, use_json, wire, birth) == BaseDecode(variant, use_json, wire, NoPayload)

\* faulty variant of BirthEncode: the caller's include_dtypes is passed on
BirthEncodeAsAsked(p, use_json, include_dtypes) == BaseEncode(p, use_json, include_dtypes)

\* Birth.encode: include_dtypes = True, then super().encode
BirthEncode(p, use_json, include_dtypes) == BaseEncode(p, use_json, TRUE)

\* NDeath.decode
NDeathDecode(wire) ==
    IF wire.format # "binary" THEN Raised(ParseError)
    ELSE IF wire.metrics = <<>> THEN Raised("IndexError")
    ELSE Returned([variant |-> "NDEATH",
                   timestamp |-> IF wire.timestamp = None THEN PbTimestamp(wire) ELSE None,
                   bd_seq_metric |-> MetricFromPb(wire.metrics[1])])

\* NDeath.encode, the bytes it produces for a payload with a bd_seq_metric
NDeathToWire(p) ==
    [format |-> "binary", timestamp |-> p.timestamp, seq |-> None,
     metrics |-> <<MetricToPb(p.bd_seq_metric, TRUE)>>]

\* DDeath.decode / DDeath.encode
DDeathDecode(wire) ==
    IF wire.format # "binary" THEN Raised(ParseError)
    ELSE Returned([variant |-> "DDEATH", timestamp |-> PbTimestamp(wire), seq |-> PbSeq(wire)])

DDeathToWire(p) ==
    [format |-> "binary", timestamp |-> p.timestamp, seq |-> p.seq, metrics |-> <<>>]

\* State.decode / State.encode: a JSON object with both keys
StateDecode(wire) ==
    IF wire.format # "text" THEN Raised(ParseError)
    ELSE Returned([variant |-> "STATE", timestamp |-> wire.timestamp, online |-> wire.online])

StateToWire(p) == [format |-> "text", timestamp |-> p.timestamp, online |-> p.online]

\* payload_cls.decode(raw, birth=birth), by payload class
DecodeAs(variant, use_json, wire, birth) ==
    IF variant \in BirthVariants THEN BirthDecode(variant, use_json, wire, birth)
    ELSE IF variant \in BaseVariants THEN BaseDecode(variant, use_json, wire, birth)
    ELSE IF variant = "NDEATH" THEN NDeathDecode(wire)
    ELSE IF variant = "DDEATH" THEN DDeathDecode(wire)
    ELSE StateDecode(wire)

\* payload.encode(include_dtypes=...), by payload class
EncodeAs(p, use_json, include_dtypes) ==
    IF p.variant \in BirthVariants THEN BirthEncode(p, use_json, include_dtypes)
    ELSE IF p.variant \in BaseVariants THEN BaseEncode(p, use_json, include_dtypes)
    ELSE IF p.variant = "NDEATH" THEN NDeathToWire(p)
    ELSE IF p.variant = "DDEATH" THEN DDeathToWire(p)
    ELSE StateToWire(p)

\* Message.from_mqtt_message: with use_json_payload it calls
\* payload_cls.from_json, which no payload class defines; else
\* payload_cls.decode, which reads the class attribute
FromMqttMessage(variant, use_json_payload, class_flag, raw, birth, qos, retain) ==
    IF use_json_payload THEN Raised("AttributeError")
    ELSE LET decoded == DecodeAs(variant, class_flag, raw, birth)
         IN  IF decoded.err # None THEN Raised(decoded.err)
             ELSE Returned([variant |-> variant, payload |-> decoded.val,
                            qos |-> qos, retain |-> retain])

\* Strings that are split are sequences of characters; AbsentStr is Python's
\* None where a str is expected
AbsentStr == <<None>>

\* str.split(":"): the segments between the separators, empty ones included
RECURSIVE Split(_)
Split(str) ==
    IF \A i \in DOMAIN str : str[i] # ":" THEN <<str>>
    ELSE LET i == CHOOSE k \in DOMAIN str :
                     str[k] = ":" /\ \A j \in 1..(k - 1) : str[j] # ":"
         IN  <<SubSeq(str, 1, i - 1)>> \o Split(SubSeq(str, i + 1, Len(str)))

\* get_topic_hierarchy_from_spb_parris_encoding(message, metric): calling
\* split on None raises AttributeError
TopicHierarchy(topic, name) ==
    IF topic.namespace # "spBv1.0" THEN Raised("ValueError")
    ELSE IF topic.group_id = AbsentStr THEN Raised("AttributeError")
    ELSE IF topic.edge_node_id # AbsentStr /\ topic.sparkplug_host_id # AbsentStr
    THEN Raised("ValueError")
    ELSE IF name = AbsentStr THEN Raised("AttributeError")
    ELSE Returned(
            Split(topic.group_id)
            \o (IF topic.edge_node_id # AbsentStr
                THEN <<topic.edge_node_id>>
                     \o (IF topic.device_id # AbsentStr THEN <<topic.device_id>> ELSE <<>>)
                ELSE IF topic.sparkplug_host_id # AbsentStr
                THEN <<topic.sparkplug_host_id>>
                ELSE <<>>)
            \o Split(name))

\* topics of messages: node and device messages carry a group and a node,
\* host liveness messages (<namespace>/STATE/<host id>) carry no group
Topics ==
    {[namespace |-> ns, group_id |-> g, edge_node_id |-> n, device_id |-> d,
      sparkplug_host_id |-> h] :
        ns \in {"spBv1.0", "spAv1.0"},
        g \in {AbsentStr, <<"g">>, <<"g", ":", "h">>},
        n \in {AbsentStr, <<"n">>},
        d \in {AbsentStr, <<"d">>},
        h \in {AbsentStr, <<"h">>}}

\* metric names
MetricNames == {AbsentStr, <<"a">>, <<"a", ":", "b">>, <<"a", ":">>}

(* inputs *)

ObjectMetricLists == SeqsUpTo(ObjectMetrics, MaxWire)

WireMetricLists == SeqsUpTo(WireMetrics, MaxWire)

\* births that exist: their construction did not raise
BirthObjects ==
    {[variant |-> v, timestamp |-> "7", seq |-> "0", metrics |-> ms] :
        v \in BirthVariants, ms \in {l \in ObjectMetricLists : BirthPostInit(l) = None}}

\* resolution contexts: none, a birth that declares metric a with alias 1, a
\* birth that declares metric z without an alias
BirthContexts ==
    {NoPayload,
     [variant |-> "NBIRTH", timestamp |-> "7", seq |-> "0",
      metrics |-> <<CodecMetric("a", "1", "INT32", "0")>>],
     [variant |-> "NBIRTH", timestamp |-> "7", seq |-> "0",
      metrics |-> <<CodecMetric("z", None, "INT32", "0")>>]}

\* payload objects of every variant
PayloadObjects ==
    BirthObjects
    \cup {[variant |-> v, timestamp |-> "7", seq |-> "0", metrics |-> ms] :
            v \in DataVariants, ms \in ObjectMetricLists}
    \cup {[variant |-> v, timestamp |-> "7", metrics |-> ms] :
            v \in CmdVariants, ms \in ObjectMetricLists}
    \cup {[variant |-> "NDEATH", timestamp |-> t, bd_seq_metric |-> m] :
            t \in {None, "7"}, m \in ObjectMetrics}
    \cup {[variant |-> "DDEATH", timestamp |-> "7", seq |-> "0"]}
    \cup {[variant |-> "STATE", timestamp |-> "7", online |-> o] : o \in BOOLEAN}

\* the two representations
Formats == {"binary", "text"}

\* raw payloads as the transport delivers them for a message type
WiresFor(variant) ==
    IF variant = "STATE"
    THEN {[format |-> f, timestamp |-> "7", online |-> o] :
            f \in Formats, o \in BOOLEAN}
    ELSE {[format |-> f, timestamp |-> t, seq |-> s, metrics |-> ws] :
            f \in Formats, t \in {None, "7"}, s \in {None, "0"}, ws \in WireMetricLists}

\* qos and retain of a delivered MQTT message
Deliveries == {[qos |-> 0, retain |-> FALSE], [qos |-> 1, retain |-> TRUE]}

CodecInit ==
    /\ applied = [op |-> "none"]
    /\ outcome = Returned(NoPayload)

\* each behaviour of the codec applies one call to one input
Fresh == applied.op = "none"

CodecFrame == UNCHANGED <<nodeVars, hostVars, threadVars>>

\* NBirth(...) / DBirth(...)
ConstructBirth ==
    /\ Fresh
    /\ \E variant \in BirthVariants, ms \in ObjectMetricLists :
          /\ applied' = [op |-> "construct", variant |-> variant, metrics |-> ms]
          /\ outcome' = Construct(variant, "7", "0", ms)
    /\ CodecFrame

\* payload_cls.decode(raw, birth=birth)
Decode ==
    /\ Fresh
    /\ \E variant \in Variants, use_json \in BOOLEAN, birth \in BirthContexts :
          \E wire \in WiresFor(variant) :
             /\ applied' = [op |-> "decode", variant |-> variant, use_json |-> use_json,
                            wire |-> wire, birth |-> birth]
             /\ outcome' = DecodeAs(variant, use_json, wire, birth)
    /\ CodecFrame

\* payload.encode(include_dtypes=include_dtypes)
Encode ==
    /\ Fresh
    /\ \E p \in PayloadObjects, use_json \in BOOLEAN, include_dtypes \in BOOLEAN :
          /\ applied' = [op |-> "encode", payload |-> p, use_json |-> use_json,
                         include_dtypes |-> include_dtypes]
          /\ outcome' = Returned(EncodeAs(p, use_json, include_dtypes))
    /\ CodecFrame

\* type(p).decode(p.encode(include_dtypes=include_dtypes))
RoundTrip ==
    /\ Fresh
    /\ \E p \in PayloadObjects, use_json \in BOOLEAN, include_dtypes \in BOOLEAN :
          /\ applied' = [op |-> "roundtrip", payload |-> p, use_json |-> use_json,
                         include_dtypes |-> include_dtypes]
          /\ outcome' = DecodeAs(p.variant, use_json,
                                 EncodeAs(p, use_json, include_dtypes), NoPayload)
    /\ CodecFrame

\* Message.from_mqtt_message(mqtt_message, birth=birth, use_json_payload=...);
\* class_flag is the class attribute use_json_payload
FromMqtt ==
    /\ Fresh
    /\ \E variant \in Variants, use_json_payload \in BOOLEAN, class_flag \in BOOLEAN,
          birth \in BirthContexts, delivery \in Deliveries :
          \E raw \in WiresFor(variant) :
             /\ applied' = [op |-> "from_mqtt", variant |-> variant,
                            use_json_payload |-> use_json_payload,
                            class_flag |-> class_flag,
                            raw |-> raw, birth |-> birth, delivery |-> delivery]
             /\ outcome' = FromMqttMessage(variant, use_json_payload, class_flag, raw,
                                           birth, delivery.qos, delivery.retain)
    /\ CodecFrame

\* get_topic_hierarchy_from_spb_parris_encoding(message, metric)
Hierarchy ==
    /\ Fresh
    /\ \E topic \in Topics, name \in MetricNames :
          /\ applied' = [op |-> "hierarchy", topic |-> topic, name |-> name]
          /\ outcome' = TopicHierarchy(topic, name)
    /\ CodecFrame

\* the same payload object sent in both representations: its binary encoding
\* decoded as binary and its text encoding decoded as text, with one birth
Mirror ==
    /\ Fresh
    /\ \E p \in {q \in PayloadObjects : q.variant \in BaseVariants},
          birth \in BirthContexts, include_dtypes \in BOOLEAN :
          /\ applied' = [op |-> "mirror", payload |-> p, birth |-> birth,
                         include_dtypes |-> include_dtypes]
          /\ outcome' = Returned(
                [binary |-> DecodeAs(p.variant, FALSE,
                                     EncodeAs(p, FALSE, include_dtypes), birth),
                 text |-> DecodeAs(p.variant, TRUE,
                                   EncodeAs(p, TRUE, include_dtypes), birth)])
    /\ CodecFrame

CodecNext ==
    \/ Hierarchy
    \/ Mirror
    \/ ConstructBirth
    \/ Decode
    \/ Encode
    \/ RoundTrip
    \/ FromMqtt

----------------------------------------------------------------------------
(* Specifications *)

Init == NodeInit /\ HostInit /\ ThreadInit /\ HostThreadInit /\ CodecInit

\* the node session
Next == NodeNext

Spec == Init /\ [][Next]_vars

\* the host session
HostSpec == Init /\ [][HostNext]_vars

\* the node session with its two threads
ThreadSpec == Init /\ [][ThreadNext]_vars

\* the host session with its two threads
HostThreadSpec == Init /\ [][HostThreadNext]_vars

\* the payload codec, applied to bounded inputs
CodecSpec == Init /\ [][CodecNext]_vars

----------------------------------------------------------------------------
(* Properties of the node session (checked under Spec) *)

\* indices of the steps that hand a message of this type for this identity
\* to the Client
Handed(steps, mtype, id) ==
    {i \in DOMAIN steps :
        steps[i].call = "publish" /\ steps[i].msg.mtype = mtype /\ steps[i].msg.id = id}

HandedAny(steps, mtype) ==
    {i \in DOMAIN steps : steps[i].call = "publish" /\ steps[i].msg.mtype = mtype}

NamesOf(ms) == {ms[i].name : i \in DOMAIN ms}

\* the last metric of the list that carries this name
LastNamed(ms, n) ==
    ms[CHOOSE i \in DOMAIN ms :
          ms[i].name = n /\ \A j \in DOMAIN ms : ms[j].name = n => j <= i]

\* the list holds each value of the snapshot once and nothing else
CarriesSnapshot(ms, snapshot) ==
    /\ Len(ms) = Cardinality(DOMAIN snapshot)
    /\ \A n \in DOMAIN snapshot : \E i \in DOMAIN ms : ms[i] = snapshot[n]

ValidForBirth(ms) ==
    \A i \in DOMAIN ms : ms[i].name # None /\ ms[i].datatype # "UNKNOWN"

\* the step just taken is a publish call for an identity with no entry
PublishesNew(id) ==
    last'.op = "publish" /\ last'.id = id /\ id \notin DOMAIN published

\* the step just taken is a publish call for an identity with an entry
PublishesKnown(id) ==
    last'.op = "publish" /\ last'.id = id /\ id \in DOMAIN published

\* the given metrics are the identity's snapshot after the step
StoresGiven(id) ==
    /\ id \in DOMAIN published'
    /\ DOMAIN published'[id] = NamesOf(last'.ms)
    /\ \A n \in NamesOf(last'.ms) : published'[id][n] = LastNamed(last'.ms, n)

\* C1 (as stated): publish for an identity with no entry stores the given
\* metrics as its snapshot and hands exactly one NBIRTH and no NDATA for it,
\* in every reachable state
C1_FirstPublishAlwaysBirth ==
    [][\A id \in Ids : PublishesNew(id) =>
          /\ StoresGiven(id)
          /\ Cardinality(Handed(trace', "NBIRTH", id)) = 1
          /\ HandedAny(trace', "NDATA") = {}]_vars

\* C1 (amended): publish for an identity with no entry stores the given
\* metrics as its snapshot and never hands an NDATA; when every given metric
\* has a name and a datatype other than UNKNOWN it hands exactly one NBIRTH,
\* for that identity and with the given metrics, and returns; otherwise the
\* NBirth cannot be built, ValueError is raised and nothing is handed over
C1_FirstPublishBirthIfValid ==
    [][\A id \in Ids : PublishesNew(id) =>
          /\ StoresGiven(id)
          /\ HandedAny(trace', "NDATA") = {}
          /\ ValidForBirth(last'.ms) =>
                /\ Len(trace') = 1
                /\ Handed(trace', "NBIRTH", id) = {1}
                /\ trace'[1].msg.payload.metrics = last'.ms
                /\ raised' = None
          /\ ~ValidForBirth(last'.ms) =>
                /\ trace' = <<>>
                /\ raised' = "ValueError"]_vars

\* C1 witness: a first publish of a valid metric, made after other
\* operations (the other identity is known, the node is connected), has
\* handed its NBIRTH
C1_Witness ==
    /\ last.op = "publish" /\ last.ms = <<a1>>
    /\ connected /\ Len(keys) = 2 /\ keys[2] = last.id
    /\ Handed(trace, "NBIRTH", last.id) = {1}
    /\ published[last.id] = SnapshotOf(<<a1>>)

\* C2: publish for a known identity hands exactly one NDATA, carrying
\* exactly the metrics of this call, and leaves as snapshot the previous
\* snapshot overwritten name by name with them (last write wins)
C2_KnownPublishDataAndMerge ==
    [][\A id \in Ids : PublishesKnown(id) =>
          /\ Len(trace') = 1
          /\ Handed(trace', "NDATA", id) = {1}
          /\ trace'[1].msg.payload.metrics = last'.ms
          /\ DOMAIN published'[id] = DOMAIN published[id] \cup NamesOf(last'.ms)
          /\ \A n \in DOMAIN published'[id] :
                published'[id][n] = IF n \in NamesOf(last'.ms)
                                    THEN LastNamed(last'.ms, n)
                                    ELSE published[id][n]]_vars

\* C2 witness: after publish(m1) then publish(m2) the data message holds
\* only m2 and the snapshot holds m1 and m2
C2_Witness ==
    /\ last.op = "publish" /\ last.ms = <<b1>>
    /\ Handed(trace, "NDATA", last.id) = {1}
    /\ trace[1].msg.payload.metrics = <<b1>>
    /\ DOMAIN published[last.id] = {"a", "b"}
    /\ published[last.id]["a"] = a1 /\ published[last.id]["b"] = b1

\* C3 (as stated): an NDATA for an identity is handed to the transport only
\* after an NBIRTH for that identity was
C3_BirthBeforeData ==
    \A id \in Ids : Handed(trace, "NDATA", id) # {} => id \in born

Calls(steps, call) == {i \in DOMAIN steps : steps[i].call = call}

Known == {keys[i] : i \in DOMAIN keys}

\* C4 (as stated): disconnect called while connected hands exactly one NDEATH
\* per known identity, all of them before the transport's disconnect is
\* invoked and before the connected flag is cleared
C4_DeathsBeforeClose ==
    [][(last'.op = "disconnect" /\ connected) =>
          /\ \A id \in Known : Cardinality(Handed(trace', "NDEATH", id)) = 1
          /\ Cardinality(HandedAny(trace', "NDEATH")) = Cardinality(Known)
          /\ \E c \in Calls(trace', "disconnect"), f \in Calls(trace', "connected:=False") :
                \A d \in HandedAny(trace', "NDEATH") : d < c /\ d < f]_vars

\* C5: disconnect called while the connected flag is false hands no NDEATH
\* and leaves the snapshot map and the connected flag as they were
C5_DisconnectIdempotent ==
    [][(last'.op = "disconnect" /\ ~connected) =>
          /\ HandedAny(trace', "NDEATH") = {}
          /\ published' = published
          /\ keys' = keys
          /\ connected' = connected]_vars

\* C5 witness: disconnect has run on a node that was not connected although
\* two identities were known (had it been connected, the trace would start
\* with an NDEATH), and it handed over no death
C5_Witness ==
    /\ last.op = "disconnect"
    /\ Len(keys) = 2 /\ born = Known
    /\ trace = <<ClientDisconnect, SetConnected(FALSE)>>
    /\ ~connected

\* C6 (as stated): each on-connect callback sets the connected flag and
\* hands exactly one NBIRTH per identity of the snapshot map, built from
\* that identity's current snapshot
C6_ReconnectRebirthsAll ==
    [][last'.op = "on_connect" =>
          /\ connected'
          /\ \A id \in DOMAIN published :
                /\ Cardinality(Handed(trace', "NBIRTH", id)) = 1
                /\ \A i \in Handed(trace', "NBIRTH", id) :
                      CarriesSnapshot(trace'[i].msg.payload.metrics, published[id])]_vars

\* C7: no operation removes an identity from the snapshot map or a metric
\* name from a snapshot
C7_SnapshotsNeverShrink ==
    [][\A id \in DOMAIN published :
          /\ id \in DOMAIN published'
          /\ DOMAIN published[id] \subseteq DOMAIN published'[id]]_vars

\* C7 witness: both identities and a two-metric snapshot are still there
\* after a disconnect that closed the transport
C7_Witness ==
    /\ last.op = "disconnect" /\ ~connected /\ ~opened /\ born # {}
    /\ DOMAIN published = Ids
    /\ \E id \in Ids : DOMAIN published[id] = {"a", "b"}

\* C8 (as stated): rebirth for a known identity, also one whose snapshot is
\* empty, hands exactly one NBIRTH for it with exactly the metrics of the
\* snapshot and leaves the snapshot unchanged
C8_RebirthKnown ==
    [][\A id \in Ids : (last'.op = "rebirth" /\ last'.id = id /\ id \in DOMAIN published) =>
          /\ Len(trace') = 1
          /\ Handed(trace', "NBIRTH", id) = {1}
          /\ CarriesSnapshot(trace'[1].msg.payload.metrics, published[id])
          /\ published' = published]_vars

\* C9: rebirth for an identity that is not in the snapshot map raises
\* nothing, hands nothing to the transport, creates no entry and leaves the
\* connected flag unchanged
C9_RebirthUnknownNoOp ==
    [][\A id \in Ids : (last'.op = "rebirth" /\ last'.id = id /\ id \notin DOMAIN published) =>
          /\ raised' = None
          /\ trace' = <<>>
          /\ published' = published
          /\ keys' = keys
          /\ connected' = connected]_vars

\* C9 witness: rebirth has run for an identity with no entry on a connected
\* node that knows another identity
C9_Witness ==
    /\ last.op = "rebirth" /\ last.id \notin DOMAIN published
    /\ connected /\ Len(keys) = 1 /\ born = Known
    /\ trace = <<>> /\ raised = None

\* C24 (as stated): an identity has an entry in the snapshot map only if a
\* birth for it has been handed to the transport; a first publish whose birth
\* cannot be constructed leaves no entry behind
C24_EntryOnlyIfBorn == \A id \in Known : id \in born

\* C25 (as stated): every NDEATH handed over on disconnect carries a timestamp
\* and a birth-death-sequence metric and encodes without error, and a
\* disconnect always closes the transport and clears the connected flag
C25_DeathsEncodeAndDisconnectCompletes ==
    last.op = "disconnect" =>
        /\ \A i \in HandedAny(trace, "NDEATH") :
              /\ trace[i].msg.payload.timestamp # None
              /\ trace[i].msg.payload.bd_seq_metric # None
              /\ trace[i].err = None
        /\ Calls(trace, "disconnect") # {}
        /\ ~connected

\* C26: every NBIRTH and every NDATA handed to the Client carries sequence
\* number 0, however many messages were handed over before
C26_SeqAlwaysZero ==
    \A i \in HandedAny(trace, "NBIRTH") \cup HandedAny(trace, "NDATA") :
        trace[i].msg.payload.seq = 0

\* C26 witness: a data message, with sequence number 0, for an identity whose
\* birth was handed over by an earlier call
C26_Witness ==
    /\ last.op = "publish" /\ last.id \in born
    /\ \E i \in Handed(trace, "NDATA", last.id) :
          trace[i].msg.payload.seq = 0 /\ trace[i].err = None

\* value of the connected flag when step i of a handler runs: the last
\* assignment among the earlier steps, or the value the handler started with
FlagAt(steps, i, before) ==
    LET writes == {j \in 1..(i - 1) :
                     steps[j].call \in {"connected:=True", "connected:=False"}}
    IN  IF writes = {} THEN before
        ELSE steps[CHOOSE j \in writes : \A k \in writes : k <= j].call = "connected:=True"

\* C29 (as stated): every birth, data and death message is handed to the
\* Client while the connected flag is true; publish and rebirth called while
\* it is false hand nothing over
C29_HandsOverOnlyWhileConnected ==
    [][\A i \in Calls(trace', "publish") : FlagAt(trace', i, connected)]_vars

\* indices of the steps that hand any message for this identity to the Client
HandedFor(steps, id) ==
    {i \in DOMAIN steps : steps[i].call = "publish" /\ steps[i].msg.id = id}

\* the handler's last message for the identity is of this type
EndsWith(steps, mtype, id) ==
    \E i \in HandedFor(steps, id) :
        /\ steps[i].msg.mtype = mtype
        /\ \A j \in HandedFor(steps, id) : j <= i

\* the handler's first message for the identity is of this type
StartsWith(steps, mtype, id) ==
    \E i \in HandedFor(steps, id) :
        /\ steps[i].msg.mtype = mtype
        /\ \A j \in HandedFor(steps, id) : i <= j

\* C28 (as stated, for two handlers that follow each other): when the last
\* message a handler handed over for an identity is an NDEATH, the first
\* message the next handler hands over for it is not an NDATA
C28_NoDataAfterDeath ==
    [][\A id \in Ids :
          EndsWith(trace, "NDEATH", id) => ~StartsWith(trace', "NDATA", id)]_vars

----------------------------------------------------------------------------
(* Properties of the host session (checked under HostSpec) *)

\* a retained STATE message of this host with the given online value
IsState(msg, online) ==
    /\ msg.mtype = "STATE" /\ msg.id = HostId
    /\ msg.retain
    /\ msg.payload.online = online

\* the step registers a retained offline STATE as last will
IsOfflineWill(step) == step.call = "set_will" /\ IsState(step.msg, FALSE)

\* the step publishes a retained online STATE
IsOnlinePublish(step) == step.call = "publish" /\ IsState(step.msg, TRUE)

\* C10: in a connect cycle the offline will is registered, then the
\* transport is opened; the on-connect callback then publishes a retained
\* online STATE, invokes the hook if one was given, and registers a fresh
\* will (stamped with the time of the callback, like the online STATE, and
\* from then on the will the transport holds). The transport is never
\* opened without an offline will registered just before.
C10_ConnectCycleOrder ==
    /\ \A c \in Calls(htrace, "connect") : c > 1 /\ IsOfflineWill(htrace[c - 1])
    /\ hlast = "connect" => Calls(htrace, "connect") = {Len(htrace)}
    /\ hlast = "on_connect" =>
          /\ Len(htrace) >= 3
          /\ htrace[1] = SetConnected(TRUE)
          /\ IsOnlinePublish(htrace[2])
          /\ \A i \in DOMAIN htrace : IsOnlinePublish(htrace[i]) => i = 2
          /\ Calls(htrace, "hook") = IF hhook = None THEN {} ELSE {3}
          /\ Calls(htrace, "set_will") = {Len(htrace)}
          /\ IsOfflineWill(htrace[Len(htrace)])
          /\ htrace[Len(htrace)].msg.payload.timestamp = htrace[2].msg.payload.timestamp
          /\ hwill = htrace[Len(htrace)].msg

\* C10 witness: a callback with a hook has run at a later time than the
\* connect call: online STATE, hook, then a will with the new timestamp
C10_Witness ==
    /\ hlast = "on_connect" /\ hhook = "returns"
    /\ Len(htrace) = 4
    /\ IsOnlinePublish(htrace[2]) /\ htrace[3].call = "hook" /\ IsOfflineWill(htrace[4])
    /\ hwill = htrace[4].msg /\ hwill.payload.timestamp > 0
    /\ hconnected

\* the step just taken is a call of HostApplication.disconnect by the caller
\* (handlers do not advance the clock, Tick does nothing else)
HostDisconnects == hlast' = "disconnect" /\ hnow' = hnow

StatePublishes(steps) ==
    {i \in DOMAIN steps : steps[i].call = "publish" /\ steps[i].msg.mtype = "STATE"}

\* C11: disconnect with the connected flag true publishes exactly one
\* retained STATE with online=false, before the transport's disconnect is
\* invoked; with the flag false it publishes no STATE; the flag is false
\* afterwards in both cases
C11_HostDisconnectOffline ==
    [][HostDisconnects =>
          /\ hconnected =>
                /\ Cardinality(StatePublishes(htrace')) = 1
                /\ \A i \in StatePublishes(htrace') :
                      /\ IsState(htrace'[i].msg, FALSE)
                      /\ \E c \in Calls(htrace', "disconnect") : i < c
          /\ ~hconnected => StatePublishes(htrace') = {}
          /\ Calls(htrace', "disconnect") # {}
          /\ ~hconnected']_vars

\* C11 witness: a connected host has disconnected: offline STATE, then the
\* transport's disconnect, then the flag
C11_Witness ==
    /\ hlast = "disconnect" /\ ~hconnected /\ ~hopened
    /\ Len(htrace) = 3
    /\ htrace[1].call = "publish" /\ IsState(htrace[1].msg, FALSE)
    /\ htrace[2] = ClientDisconnect
    /\ htrace[3] = SetConnected(FALSE)

\* the steps at which a handler runs code supplied by the user
UserCode(steps) == {i \in DOMAIN steps : steps[i].call \in {"hook", "callback"}}

\* a session lock taken in the earlier steps of the handler is still held
LockHeldAt(steps, i) ==
    Cardinality({j \in 1..(i - 1) : steps[j].call = "acquire"})
        > Cardinality({j \in 1..(i - 1) : steps[j].call = "release"})

LastCall(steps) == steps[Len(steps)].call

C23_FlagFollowsConnectCycle ==
    /\ ~hconnected
    /\ [][/\ (~hconnected /\ hconnected') => hlast' = "on_connect"
          /\ (hconnected /\ ~hconnected') =>
                \E c \in Calls(htrace', "disconnect"),
                   f \in Calls(htrace', "connected:=False") : c < f
          /\ (hlast' = "on_connect" /\ hnow' = hnow /\ hhook # "disconnects") =>
                hconnected'
          /\ (hlast' = "link_lost" /\ hnow' = hnow) => hconnected' = hconnected]_vars

\* C23 witness: the link was lost while the session was online, and the flag
\* still says connected
C23_Witness == hlast = "link_lost" /\ hconnected /\ htrace = <<>>

----------------------------------------------------------------------------
(* Properties of the two threads of a node (checked under ThreadSpec) *)

\* C12: while on_connect_callback traverses the snapshot map, no step of the
\* calling thread changes the map, a snapshot or the connected flag, and the
\* traversal never finds the map changed under it
C12_CallbackTraversalExclusive ==
    /\ [][callback.pc = "iter" => UNCHANGED <<keys, published, connected>>]_vars
    /\ [](callback.err # "RuntimeError")

----------------------------------------------------------------------------
(* Properties of the two threads of a host (checked under HostThreadSpec) *)

\* C30 (as stated): when neither on_connect_callback nor disconnect is under
\* way, the online value of the last STATE the session published equals the
\* connected flag
C30_LastStateMatchesFlag ==
    (hdelivery = "idle" /\ hcalling = "idle" /\ hstate # NoMsg) =>
        hstate.payload.online = hconnected

----------------------------------------------------------------------------
(* Properties of the payload codec (checked under CodecSpec) *)

\* the metric has no usable name: none at all, or the empty string
EmptyName(m) == m.name = None \/ m.name = ""

\* the metric's datatype is to be taken from the birth
NoDatatype(m) == m.datatype = None \/ m.datatype = "UNKNOWN"

\* C14: constructing a Birth raises the validation error whenever one of its
\* metrics has an empty name (None or "") or the datatype UNKNOWN, and
\* succeeds only if no metric has either
C14_BirthRejectsEmptyNameOrUnknown ==
    applied.op = "construct" =>
        LET ms == applied.metrics
            bad == \E i \in DOMAIN ms : EmptyName(ms[i]) \/ ms[i].datatype = "UNKNOWN"
        IN  /\ bad => outcome.err = "ValueError"
            /\ outcome.err = None => ~bad

\* the representation selected by the class attribute use_json_payload
Selected(use_json) == IF use_json THEN "text" ELSE "binary"

\* a data or command payload, in the representation of the codec in use, is
\* decoded against a birth that was supplied
DecodesAgainstBirth ==
    /\ applied.op = "decode"
    /\ applied.variant \in DataVariants \cup CmdVariants
    /\ applied.birth # NoPayload
    /\ applied.wire.format = Selected(applied.use_json)

\* the payload's fields other than its metrics are as its class needs them
EnvelopeFits(variant, wire) ==
    wire.timestamp # None /\ (wire.seq # None) = HasSeq(variant)

\* the name the birth gives the wire metric: by its alias when it has no
\* name of its own
NameFromBirth(w, birth) ==
    IF EmptyName(w) /\ w.alias \in DOMAIN NamesMapping(birth.metrics)
    THEN NamesMapping(birth.metrics)[w.alias]
    ELSE w.name

\* the wire metric needs a lookup in the birth, and the key is not there
LookupFails(w, birth) ==
    \/ EmptyName(w) /\ w.alias # None /\ w.alias \notin DOMAIN NamesMapping(birth.metrics)
    \/ NoDatatype(w) /\ NameFromBirth(w, birth) \notin DOMAIN DtypesMapping(birth.metrics)

\* C15: under both codecs, decoding a data or command payload against a
\* birth gives every metric that has an alias and no name the name the birth
\* maps the alias to, every metric without a datatype the datatype the birth
\* maps its name to, and keeps the metric's value
C15_DecodeResolvesAgainstBirth ==
    (/\ DecodesAgainstBirth
     /\ EnvelopeFits(applied.variant, applied.wire)
     /\ \A i \in DOMAIN applied.wire.metrics :
           LET w == applied.wire.metrics[i]
           IN  (~EmptyName(w) \/ w.alias # None) /\ ~LookupFails(w, applied.birth))
    => /\ outcome.err = None
       /\ Len(outcome.val.metrics) = Len(applied.wire.metrics)
       /\ \A i \in DOMAIN applied.wire.metrics :
             LET w == applied.wire.metrics[i]
                 m == outcome.val.metrics[i]
                 name == NameFromBirth(w, applied.birth)
             IN  /\ m.name = name
                 /\ m.datatype = IF NoDatatype(w)
                                  THEN DtypesMapping(applied.birth.metrics)[name]
                                  ELSE w.datatype
                 /\ m.value = w.value

\* C16: decoding a data or command payload against a birth raises the
\* lookup's error and returns no payload whenever a metric needs a lookup
\* whose key the birth does not have; a decode that returns has left no
\* metric without a datatype, and none that carried an alias without a name
C16_MissingKeyPropagates ==
    DecodesAgainstBirth =>
        /\ (\E i \in DOMAIN applied.wire.metrics :
                LookupFails(applied.wire.metrics[i], applied.birth))
              => outcome.err = "KeyError" /\ outcome.val = NoPayload
        /\ outcome.err = None =>
              \A i \in DOMAIN outcome.val.metrics :
                 /\ outcome.val.metrics[i].datatype # "UNKNOWN"
                 /\ applied.wire.metrics[i].alias # None =>
                       ~EmptyName(outcome.val.metrics[i])

\* C16 witness: a data payload whose metric refers to alias 99 was decoded
\* against a birth that declares alias 1 only, and the decode raised
C16_Witness ==
    /\ DecodesAgainstBirth
    /\ applied.variant = "NDATA"
    /\ Len(applied.wire.metrics) = 1
    /\ applied.wire.metrics[1].name = None /\ applied.wire.metrics[1].alias = "99"
    /\ applied.wire.metrics[1].datatype = "INT32"
    /\ "1" \in DOMAIN NamesMapping(applied.birth.metrics)
    /\ outcome.err = "KeyError"

\* C17: for every payload variant and both codecs, decoding what encode
\* produced (datatypes included) returns a payload equal to the original
C17_RoundTrip ==
    (applied.op = "roundtrip" /\ applied.include_dtypes) =>
        outcome.err = None /\ outcome.val = applied.payload

\* C18: NDeath.decode returns an NDeath without timestamp when the wire
\* message has no timestamp field, and with exactly the wire's timestamp
\* when it has one
C18_NDeathTimestamp ==
    (/\ applied.op = "decode" /\ applied.variant = "NDEATH"
     /\ applied.wire.format = "binary" /\ applied.wire.metrics # <<>>)
    => outcome.err = None /\ outcome.val.timestamp = applied.wire.timestamp

\* C19: Birth.encode produces the same bytes whether include_dtypes is true
\* or false, every metric's datatype among them; Birth.decode returns the
\* same for the same bytes whatever birth is supplied
C19_BirthCodecIgnoresArguments ==
    /\ (applied.op = "encode" /\ applied.payload.variant \in BirthVariants) =>
          /\ outcome.err = None
          /\ outcome.val = EncodeAs(applied.payload, applied.use_json, ~applied.include_dtypes)
          /\ \A i \in DOMAIN applied.payload.metrics :
                outcome.val.metrics[i].datatype = applied.payload.metrics[i].datatype
    /\ (applied.op = "decode" /\ applied.variant \in BirthVariants) =>
          \A b \in BirthContexts :
             outcome = DecodeAs(applied.variant, applied.use_json, applied.wire, b)

\* C19 witness: a birth was encoded in the binary form without datatypes
\* being asked for, and the bytes carry its metric's datatype
C19_Witness ==
    /\ applied.op = "encode" /\ applied.payload.variant = "NBIRTH"
    /\ ~applied.use_json /\ ~applied.include_dtypes
    /\ Len(applied.payload.metrics) = 1
    /\ outcome.val.metrics[1].datatype = "INT32"

\* C20: for every message type and both values of use_json_payload,
\* from_mqtt_message returns a Message whose payload is the raw bytes
\* decoded by the type's payload class with the supplied birth and the
\* requested codec, and whose qos and retain are those of the MQTT message
C20_FromMqttMessageDecodes ==
    applied.op = "from_mqtt" =>
        LET decoded == DecodeAs(applied.variant, applied.use_json_payload,
                                applied.raw, applied.birth)
        IN  decoded.err = None =>
               /\ outcome.err = None
               /\ outcome.val.payload = decoded.val
               /\ outcome.val.qos = applied.delivery.qos
               /\ outcome.val.retain = applied.delivery.retain

\* C21: every payload variant obeys the one codec setting: encode produces
\* the selected representation, and decode parses its input as the
\* selected representation, accepting it and rejecting the other one
C21_OneCodecForAllVariants ==
    /\ applied.op = "encode" => outcome.val.format = Selected(applied.use_json)
    /\ applied.op = "decode" =>
          (outcome.err = ParseError) = (applied.wire.format # Selected(applied.use_json))

\* the message is addressed to a node or a device of a group
NodeAddressed(topic) ==
    /\ topic.group_id # AbsentStr /\ topic.edge_node_id # AbsentStr
    /\ topic.sparkplug_host_id = AbsentStr

\* the message is a host's liveness message
HostAddressed(topic) ==
    /\ topic.sparkplug_host_id # AbsentStr
    /\ topic.edge_node_id = AbsentStr /\ topic.device_id = AbsentStr

\* C27 (as stated): decoding the binary encoding and decoding the text
\* encoding of a data or command payload, with the same birth, give the same
\* resolved payload, or fail both
C27_BinaryAndTextMirror ==
    applied.op = "mirror" =>
        LET b == outcome.val.binary
            t == outcome.val.text
        IN  \/ b.err # None /\ t.err # None
            \/ b.err = None /\ t.err = None /\ b.val = t.val

\* C22: in the supported namespace the topic hierarchy of a named metric is
\* the group id split on ":", then the node id and the device id if there is
\* one, or the host id, then the metric name split on ":"; it is returned for
\* node-addressed and for host-addressed messages, and the call raises when
\* a node id and a host id are both set
C22_TopicHierarchy ==
    (applied.op = "hierarchy" /\ applied.topic.namespace = "spBv1.0") =>
        LET topic == applied.topic
            group == IF topic.group_id = AbsentStr THEN <<>> ELSE Split(topic.group_id)
        IN  /\ (NodeAddressed(topic) /\ applied.name # AbsentStr) =>
                  /\ outcome.err = None
                  /\ outcome.val =
                        group \o <<topic.edge_node_id>>
                        \o (IF topic.device_id # AbsentStr THEN <<topic.device_id>> ELSE <<>>)
                        \o Split(applied.name)
            /\ (HostAddressed(topic) /\ applied.name # AbsentStr) =>
                  /\ outcome.err = None
                  /\ outcome.val = group \o <<topic.sparkplug_host_id>> \o Split(applied.name)
            /\ (topic.edge_node_id # AbsentStr /\ topic.sparkplug_host_id # AbsentStr) =>
                  outcome.err # None

====
